---- MODULE Spec2Model ----
(***************************************************************************)
(* Quiz Hub (app.py): the Streamlit quiz runner.                           *)
(*                                                                         *)
(* The program is a script, main(), that Streamlit executes from top to    *)
(* bottom once per user interaction.  The state that survives between two  *)
(* executions is st.session_state; a button returns True only in the       *)
(* execution its click triggered, and only buttons drawn by the previous   *)
(* execution can be clicked.  One step of the model is one execution of    *)
(* main().  st.rerun() aborts the execution and queues another one.        *)
(*                                                                         *)
(* Text the program inspects character by character (answers, choices,     *)
(* names) is a sequence of one-character strings; identifiers that are     *)
(* only copied (ids, prompts, paths, type tags) are plain strings.         *)
(***************************************************************************)
EXTENDS Integers, Sequences, FiniteSets, TLC

VARIABLES
    session_state,  \* st.session_state: the defaults of init_state plus widget keys
    screen,         \* the branch of main() the last execution rendered
    next_disabled,  \* the disabled flag the "Next" button was rendered with
    rerun,          \* an st.rerun() is pending
    event,          \* history: what the last execution of main() was and did
    graded_idx,     \* history: question indices graded (not None) in the current run
    probe           \* the document, submission and results of a direct call of
                    \* validate_quiz_data and check_question (FunctionSpec only)

vars == <<session_state, screen, next_disabled, rerun, event, graded_idx, probe>>

\* Number of questions of the generated quiz long.json.
MaxQuestions == 3

\* Largest number of questions of a document handed to validate_quiz_data.
MaxDocLen == 2

----------------------------------------------------------------------------
(* Python values *)

\* Python's None and a present value (Optional[...]).
None == [some |-> FALSE]
Some(x) == [some |-> TRUE, val |-> x]

\* session_state.quiz_path = None.
NoQuiz == "None"

\* Parsed JSON values, tagged with their Python type.
JInt(n) == [k |-> "int", v |-> n]
JBool(b) == [k |-> "bool", v |-> b]
JStr(s) == [k |-> "str", v |-> s]
JList(s) == [k |-> "list", v |-> s]

\* isinstance(x, int): bool is a subclass of int in Python.
IsInstanceInt(x) == x.k \in {"int", "bool"}
IsInstanceBool(x) == x.k = "bool"
IsInstanceList(x) == x.k = "list"

\* The integer a Python int or bool compares as.
PyInt(x) == IF x.k = "bool" THEN (IF x.v THEN 1 ELSE 0) ELSE x.v

SetMin(S) == CHOOSE m \in S : \A n \in S : m <= n

RECURSIVE JoinWith(_, _)
\* sep.join(parts)
JoinWith(sep, parts) ==
    IF parts = <<>> THEN <<>>
    ELSE IF Len(parts) = 1 THEN parts[1]
    ELSE parts[1] \o sep \o JoinWith(sep, Tail(parts))

CommaSpace == <<",", " ">>
STrue == <<"T", "r", "u", "e">>
SFalse == <<"F", "a", "l", "s", "e">>

----------------------------------------------------------------------------
(* The quizzes folder: the documents the runs are checked on *)

SA == <<"A">>
SB == <<"B">>

SingleQ(id) ==
    [id |-> id, type |-> "single_choice", prompt |-> "pick one",
     choices |-> <<SA, SB>>, answer |-> JInt(1)]

MultiQ(id) ==
    [id |-> id, type |-> "multi_select", prompt |-> "pick all",
     choices |-> <<SA, SB>>, answer |-> JList(<<JInt(1), JInt(0)>>)]

TrueFalseQ(id) ==
    [id |-> id, type |-> "true_false", prompt |-> "true or false",
     answer |-> JBool(TRUE), explanation |-> "because"]

ShortQ(id) ==
    [id |-> id, type |-> "short_answer", prompt |-> "type it",
     answer_text |-> JList(<<<<"A", "b">>, <<"c">>>>)]

IdPool == <<"q1", "q2", "q3", "q4", "q5", "q6", "q7", "q8">>

\* The k-th question of long.json: the four types in turn.
LongQuestion(k) ==
    CASE k % 4 = 1 -> MultiQ(IdPool[k])
      [] k % 4 = 2 -> ShortQ(IdPool[k])
      [] k % 4 = 3 -> SingleQ(IdPool[k])
      [] OTHER -> TrueFalseQ(IdPool[k])

\* quizzes/*.json in sorted order; stem_title is p.stem.replace("_", " ").title().
\* The files keep their content for the length of a session; a single read of
\* a file may still fail (the io outcome of load_quiz_json).
QuizFiles ==
    <<"quizzes/broken.json", "quizzes/empty.json", "quizzes/long.json",
      "quizzes/scenario.json">>

Disk ==
    [p \in {QuizFiles[i] : i \in 1..Len(QuizFiles)} |->
        CASE p = "quizzes/broken.json" ->
                [stem_title |-> "Broken",
                 data |-> [meta |-> [subject |-> "none"]]]
          [] p = "quizzes/empty.json" ->
                [stem_title |-> "Empty",
                 data |-> [meta |-> [title |-> "Empty Quiz"],
                           questions |-> JList(<<>>)]]
          [] p = "quizzes/long.json" ->
                [stem_title |-> "Long",
                 data |-> [meta |-> [title |-> "Long Quiz"],
                           questions |->
                               JList([k \in 1..MaxQuestions |-> LongQuestion(k)])]]
          [] OTHER ->
                [stem_title |-> "Scenario",
                 data |-> [questions |->
                               JList(<<SingleQ("q1"), TrueFalseQ("q2")>>)]]]

\* The names typed into "Your name (for certificate)".
Names == {<<>>, <<"K">>}

----------------------------------------------------------------------------
(* Loader and validator *)

\* Mutant of QuestionError: the single_choice answer may equal len(choices).
QuestionErrorOffByOne(q) ==
    IF ~({"id", "type", "prompt"} \subseteq DOMAIN q) THEN "missing_id_type_prompt"
    ELSE IF q.type = "single_choice" THEN
        IF ~("choices" \in DOMAIN q /\ "answer" \in DOMAIN q
              /\ IsInstanceInt(q.answer))
        THEN "single_choice_shape"
        ELSE IF PyInt(q.answer) < 0 \/ PyInt(q.answer) > Len(q.choices)
        THEN "single_choice_range"
        ELSE "ok"
    ELSE IF q.type = "multi_select" THEN
        IF ~("choices" \in DOMAIN q /\ "answer" \in DOMAIN q
              /\ IsInstanceList(q.answer))
        THEN "multi_select_shape"
        ELSE IF \E i \in 1..Len(q.answer.v) :
                    \/ ~IsInstanceInt(q.answer.v[i])
                    \/ PyInt(q.answer.v[i]) < 0
                    \/ PyInt(q.answer.v[i]) >= Len(q.choices)
        THEN "multi_select_range"
        ELSE "ok"
    ELSE IF q.type = "true_false" THEN
        IF ~("answer" \in DOMAIN q /\ IsInstanceBool(q.answer))
        THEN "true_false_shape"
        ELSE "ok"
    ELSE IF q.type = "short_answer" THEN
        IF ~("answer_text" \in DOMAIN q /\ IsInstanceList(q.answer_text)
              /\ q.answer_text.v # <<>>)
        THEN "short_answer_shape"
        ELSE "ok"
    ELSE "unknown_type"

\* The first check of validate_quiz_data that question q fails, or "ok".
QuestionError(q) ==
    IF ~({"id", "type", "prompt"} \subseteq DOMAIN q) THEN "missing_id_type_prompt"
    ELSE IF q.type = "single_choice" THEN
        IF ~("choices" \in DOMAIN q /\ "answer" \in DOMAIN q
              /\ IsInstanceInt(q.answer))
        THEN "single_choice_shape"
        ELSE IF PyInt(q.answer) < 0 \/ PyInt(q.answer) >= Len(q.choices)
        THEN "single_choice_range"
        ELSE "ok"
    ELSE IF q.type = "multi_select" THEN
        IF ~("choices" \in DOMAIN q /\ "answer" \in DOMAIN q
              /\ IsInstanceList(q.answer))
        THEN "multi_select_shape"
        ELSE IF \E i \in 1..Len(q.answer.v) :
                    \/ ~IsInstanceInt(q.answer.v[i])
                    \/ PyInt(q.answer.v[i]) < 0
                    \/ PyInt(q.answer.v[i]) >= Len(q.choices)
        THEN "multi_select_range"
        ELSE "ok"
    ELSE IF q.type = "true_false" THEN
        IF ~("answer" \in DOMAIN q /\ IsInstanceBool(q.answer))
        THEN "true_false_shape"
        ELSE "ok"
    ELSE IF q.type = "short_answer" THEN
        IF ~("answer_text" \in DOMAIN q /\ IsInstanceList(q.answer_text)
              /\ q.answer_text.v # <<>>)
        THEN "short_answer_shape"
        ELSE "ok"
    ELSE "unknown_type"

\* validate_quiz_data: [ok, q, err]; q is the 1-based index of the first
\* question that raises (0 for the document-level error).
validate_quiz_data(data) ==
    IF "questions" \notin DOMAIN data \/ ~IsInstanceList(data.questions)
    THEN [ok |-> FALSE, q |-> 0, err |-> "no_questions_list"]
    ELSE LET qs == data.questions.v
             bad == {i \in 1..Len(qs) : QuestionError(qs[i]) # "ok"}
         IN  IF bad = {} THEN [ok |-> TRUE, q |-> 0, err |-> "ok"]
             ELSE [ok |-> FALSE, q |-> SetMin(bad),
                   err |-> QuestionError(qs[SetMin(bad)])]

\* load_quiz_json: io is whether open() and json.load() succeed this time.
load_quiz_json(path, io) ==
    IF ~io THEN [ok |-> FALSE, err |-> "io"]
    ELSE IF ~validate_quiz_data(Disk[path].data).ok
    THEN [ok |-> FALSE, err |-> validate_quiz_data(Disk[path].data).err]
    ELSE [ok |-> TRUE, data |-> Disk[path].data]

\* data.get("meta", {}).get("title"), as an Optional.
MetaTitle(data) ==
    IF "meta" \in DOMAIN data /\ "title" \in DOMAIN data.meta
    THEN Some(data.meta.title) ELSE None

\* list_quizzes: (label, path, title) for each file, in sorted order.
list_quizzes ==
    [i \in 1..Len(QuizFiles) |->
        LET title == MetaTitle(Disk[QuizFiles[i]].data)
        IN  [label |-> IF title.some THEN title.val ELSE Disk[QuizFiles[i]].stem_title,
             path |-> QuizFiles[i],
             title |-> title]]

\* labels.index(choice): the first position holding choice.
LabelIndex(items, choice) ==
    SetMin({i \in 1..Len(items) : items[i].label = choice})

----------------------------------------------------------------------------
(* Helpers *)

IsSpace(c) == c \in {" ", "\t", "\n"}

\* str.lower() on one character of the alphabet the checked texts use.
Lower(c) ==
    CASE c = "A" -> "a"
      [] c = "B" -> "b"
      [] c = "C" -> "c"
      [] c = "K" -> "k"
      [] OTHER -> c

RECURSIVE SplitWs(_, _, _)
\* s.split(): the maximal runs of non-whitespace characters, in order.
SplitWs(s, cur, acc) ==
    IF s = <<>> THEN (IF cur = <<>> THEN acc ELSE Append(acc, cur))
    ELSE IF IsSpace(Head(s))
    THEN SplitWs(Tail(s), <<>>, IF cur = <<>> THEN acc ELSE Append(acc, cur))
    ELSE SplitWs(Tail(s), Append(cur, Head(s)), acc)

\* normalize: " ".join(s.lower().split())
normalize(s) ==
    JoinWith(<<" ">>, SplitWs([i \in 1..Len(s) |-> Lower(s[i])], <<>>, <<>>))

\* s.strip() is empty.
IsBlank(s) == \A i \in 1..Len(s) : IsSpace(s[i])

\* seq.index(x): the 0-based position of the first element equal to x.
IndexOf(seq, x) == SetMin({i \in 1..Len(seq) : seq[i] = x}) - 1

\* q.get("explanation", "")
Explanation(q) == IF "explanation" \in DOMAIN q THEN q.explanation ELSE ""

user_value_to_text(q, user_value) ==
    CASE q.type = "single_choice" ->
            IF user_value = None THEN <<>> ELSE user_value.val
      [] q.type = "multi_select" ->
            IF user_value # <<>> THEN JoinWith(CommaSpace, user_value) ELSE <<>>
      [] q.type = "true_false" ->
            IF user_value = None THEN <<>> ELSE user_value.val
      [] q.type = "short_answer" -> user_value
      [] OTHER -> <<>>

correct_answer_text(q) ==
    CASE q.type = "single_choice" -> q.choices[PyInt(q.answer) + 1]
      [] q.type = "multi_select" ->
            JoinWith(CommaSpace,
                     [i \in 1..Len(q.answer.v) |-> q.choices[PyInt(q.answer.v[i]) + 1]])
      [] q.type = "true_false" -> IF q.answer.v THEN STrue ELSE SFalse
      [] q.type = "short_answer" -> JoinWith(CommaSpace, q.answer_text.v)
      [] OTHER -> <<>>

\* The session_state key of the widget render_question draws for q.
WidgetKey(q) ==
    CASE q.type = "single_choice" -> <<"r_", q.id>>
      [] q.type = "multi_select" -> <<"m_", q.id>>
      [] q.type = "true_false" -> <<"t_", q.id>>
      [] OTHER -> <<"s_", q.id>>

\* The value a widget has before the user touches it: radio(index=None) is
\* None, multiselect is [], text_input is "".
WidgetDefault(q) ==
    IF q.type \in {"single_choice", "true_false"} THEN None ELSE <<>>

\* render_question: drawing a keyed widget registers its key in session_state;
\* the value returned is the one stored under the key.
render_question(ss, q) ==
    [ss EXCEPT !.widgets =
        [k \in DOMAIN ss.widgets \cup {WidgetKey(q)} |->
            IF k \in DOMAIN ss.widgets THEN ss.widgets[k] ELSE WidgetDefault(q)]]

\* Mutant of check_question: a multi_select submission is correct as soon as
\* every chosen option is in the answer.
check_questionSubsetOk(q, user_value) ==
    CASE q.type = "single_choice" ->
            IF user_value = None THEN None
            ELSE Some(IndexOf(q.choices, user_value.val) = PyInt(q.answer))
      [] q.type = "multi_select" ->
            IF user_value = <<>> THEN None
            ELSE Some({IndexOf(q.choices, user_value[i]) : i \in 1..Len(user_value)}
                      \subseteq {PyInt(q.answer.v[i]) : i \in 1..Len(q.answer.v)})
      [] q.type = "true_false" ->
            IF user_value = None THEN None
            ELSE Some((user_value.val = STrue) = q.answer.v)
      [] q.type = "short_answer" ->
            IF user_value = <<>> THEN None
            ELSE Some(normalize(user_value)
                      \in {normalize(q.answer_text.v[i]) : i \in 1..Len(q.answer_text.v)})
      [] OTHER -> None

\* Mutant of check_question: an absent or empty submission is graded as wrong
\* instead of being sent back.
check_questionGradesEmpty(q, user_value) ==
    CASE q.type = "single_choice" ->
            IF user_value = None THEN Some(FALSE)
            ELSE Some(IndexOf(q.choices, user_value.val) = PyInt(q.answer))
      [] q.type = "multi_select" ->
            Some({IndexOf(q.choices, user_value[i]) : i \in 1..Len(user_value)}
                 = {PyInt(q.answer.v[i]) : i \in 1..Len(q.answer.v)})
      [] q.type = "true_false" ->
            IF user_value = None THEN Some(FALSE)
            ELSE Some((user_value.val = STrue) = q.answer.v)
      [] q.type = "short_answer" ->
            Some(normalize(user_value)
                 \in {normalize(q.answer_text.v[i]) : i \in 1..Len(q.answer_text.v)})
      [] OTHER -> None

\* check_question: None (nothing to grade) or Some(ok).
check_question(q, user_value) ==
    CASE q.type = "single_choice" ->
            IF user_value = None THEN None
            ELSE Some(IndexOf(q.choices, user_value.val) = PyInt(q.answer))
      [] q.type = "multi_select" ->
            IF user_value = <<>> THEN None
            ELSE Some({IndexOf(q.choices, user_value[i]) : i \in 1..Len(user_value)}
                      = {PyInt(q.answer.v[i]) : i \in 1..Len(q.answer.v)})
      [] q.type = "true_false" ->
            IF user_value = None THEN None
            ELSE Some((user_value.val = STrue) = q.answer.v)
      [] q.type = "short_answer" ->
            IF user_value = <<>> THEN None
            ELSE Some(normalize(user_value)
                      \in {normalize(q.answer_text.v[i]) : i \in 1..Len(q.answer_text.v)})
      [] OTHER -> None

----------------------------------------------------------------------------
(* Session state *)

Prefixes == {"r_", "m_", "t_", "s_"}

\* init_state: the defaults, set on the first execution of main().
init_state ==
    [quiz_path |-> NoQuiz, order |-> <<>>, idx |-> 0, score |-> 0,
     attempts |-> <<>>, graded_current |-> FALSE, allow_next |-> FALSE,
     student_name |-> <<>>, widgets |-> <<>>]

\* Mutant of reset_run: the widget keys survive the reset.
reset_runKeepsWidgets(ss) ==
    [ss EXCEPT !.idx = 0, !.score = 0, !.attempts = <<>>,
               !.graded_current = FALSE, !.allow_next = FALSE]

\* Mutant of reset_run: the score survives the reset.
reset_runKeepsScore(ss) ==
    [ss EXCEPT !.idx = 0, !.attempts = <<>>,
               !.graded_current = FALSE, !.allow_next = FALSE,
               !.widgets = [k \in {x \in DOMAIN ss.widgets : x[1] \notin Prefixes}
                               |-> ss.widgets[k]]]

reset_run(ss) ==
    [ss EXCEPT !.idx = 0, !.score = 0, !.attempts = <<>>,
               !.graded_current = FALSE, !.allow_next = FALSE,
               !.widgets = [k \in {x \in DOMAIN ss.widgets : x[1] \notin Prefixes}
                               |-> ss.widgets[k]]]

\* Mutant of record_attempt: graded_current is not set after the append.
record_attemptForgetsFlag(ss, q, user_value, ok) ==
    IF ss.graded_current THEN ss
    ELSE [ss EXCEPT
            !.attempts = Append(ss.attempts,
                [id |-> q.id, prompt |-> q.prompt, type |-> q.type,
                 user_answer |-> user_value_to_text(q, user_value),
                 correct_answer |-> correct_answer_text(q),
                 is_correct |-> ok,
                 explanation |-> Explanation(q)])]

record_attempt(ss, q, user_value, ok) ==
    IF ss.graded_current THEN ss
    ELSE [ss EXCEPT
            !.attempts = Append(ss.attempts,
                [id |-> q.id, prompt |-> q.prompt, type |-> q.type,
                 user_answer |-> user_value_to_text(q, user_value),
                 correct_answer |-> correct_answer_text(q),
                 is_correct |-> ok,
                 explanation |-> Explanation(q)]),
            !.graded_current = TRUE]

\* Mutant of CheckClicked: the score is counted without looking at
\* graded_current.
CheckClickedCountsAgain(ss, q, user_value, graded) ==
    IF graded = None THEN ss
    ELSE [record_attempt([ss EXCEPT !.score = IF graded.val THEN @ + 1 ELSE @],
                         q, user_value, graded.val)
            EXCEPT !.allow_next = TRUE]

\* The body of `if st.button("Check")`, graded being check_question's result.
CheckClicked(ss, q, user_value, graded) ==
    IF graded = None THEN ss
    ELSE LET s1 == IF ~ss.graded_current
                   THEN record_attempt(
                            [ss EXCEPT !.score = IF graded.val THEN @ + 1 ELSE @],
                            q, user_value, graded.val)
                   ELSE ss
         IN  [s1 EXCEPT !.allow_next = TRUE]

\* Mutant of NextDisabled: the button is never disabled.
NextDisabledNever(ss) == FALSE

\* The disabled flag of st.button("Next"), evaluated when the button is drawn.
NextDisabled(ss) == ~ss.allow_next

\* Mutant of NextClicked: the captured inputs are deleted on the way out.
NextClickedClearsInputs(ss) ==
    [ss EXCEPT !.idx = @ + 1, !.graded_current = FALSE, !.allow_next = FALSE,
               !.widgets = <<>>]

\* The body of `if st.button("Next")`, before st.rerun().
\* Mutant of NextClicked: "Next" skips a question.
NextClickedSkips(ss) ==
    [ss EXCEPT !.idx = @ + 2, !.graded_current = FALSE, !.allow_next = FALSE]

NextClicked(ss) ==
    [ss EXCEPT !.idx = @ + 1, !.graded_current = FALSE, !.allow_next = FALSE]

----------------------------------------------------------------------------
(* One execution of main() *)

\* The history record of the execution now running: the button whose click
\* triggered it, whether that button's handler body ran, check_question's
\* result ("n/a" when it was not called), and graded_current at the start.
Ev(click, reached, graded) ==
    [click |-> click, reached |-> reached, graded |-> graded,
     pre_graded |-> session_state.graded_current]

GradedTag(graded) ==
    IF graded = None THEN "None" ELSE IF graded.val THEN "True" ELSE "False"

Finish(ss, scr, nd, rr, ev, gi) ==
    /\ session_state' = ss
    /\ screen' = scr
    /\ next_disabled' = nd
    /\ rerun' = rr
    /\ event' = ev
    /\ graded_idx' = gi
    /\ probe' = probe

\* The selection screen: nm is what the name box returns, choice the label the
\* selectbox returns.
SelectionScreen(click, ss, nm, choice) ==
    LET s1 == [ss EXCEPT !.student_name = nm]
        items == list_quizzes
        path == items[LabelIndex(items, choice) ].path
    IN  IF click = "Start"
        THEN Finish([reset_run([s1 EXCEPT !.quiz_path = path])
                        EXCEPT !.allow_next = FALSE],
                    "selection", TRUE, TRUE, Ev(click, TRUE, "n/a"), {})
        ELSE Finish(s1, "selection", TRUE, FALSE, Ev(click, FALSE, "n/a"),
                    graded_idx)

\* except Exception around load_quiz_json of the active quiz.
LoadFailed(click, ss) ==
    Finish([ss EXCEPT !.quiz_path = NoQuiz], "load_error", TRUE, FALSE,
           Ev(click, FALSE, "n/a"), graded_idx)

\* Mutant of NoQuestions: the empty quiz is shown as a finished one.
NoQuestionsAsResults(click, ss) ==
    Finish(ss, "results", TRUE, FALSE, Ev(click, FALSE, "n/a"), graded_idx)

\* total == 0: the warning and the "Back" button.
NoQuestions(click, ss) ==
    IF click = "Back"
    THEN Finish([ss EXCEPT !.quiz_path = NoQuiz], "no_questions", TRUE, FALSE,
                Ev(click, TRUE, "n/a"), graded_idx)
    ELSE Finish(ss, "no_questions", TRUE, FALSE, Ev(click, FALSE, "n/a"),
                graded_idx)

\* show_results: pdf is whether build_certificate_pdf returns; when it raises,
\* the exception leaves main() before the two buttons are drawn.
show_results(click, ss, pdf) ==
    IF ~pdf
    THEN Finish(ss, "results_exception", TRUE, FALSE, Ev(click, FALSE, "n/a"),
                graded_idx)
    ELSE IF click = "Restart"
    THEN Finish(reset_run(ss), "results", TRUE, TRUE, Ev(click, TRUE, "n/a"), {})
    ELSE IF click = "BackToSelection"
    THEN Finish([reset_run(ss) EXCEPT !.quiz_path = NoQuiz], "results", TRUE, TRUE,
                Ev(click, TRUE, "n/a"), {})
    ELSE Finish(ss, "results", TRUE, FALSE, Ev(click, FALSE, "n/a"), graded_idx)

\* The current question, the "Check" column and the "Next" column. The locals
\* of the handler are bound by \E over a one-element set.
QuestionScreen(click, ss, q) ==
    \E s1 \in {render_question(ss, q)} :
    \E user_value \in {s1.widgets[WidgetKey(q)]} :
    \E graded \in {check_question(q, user_value)} :
    \E s2 \in {IF click = "Check" THEN CheckClicked(s1, q, user_value, graded) ELSE s1} :
    \E s3 \in {IF click = "Next" THEN NextClicked(s2) ELSE s2} :
        Finish(s3, "question", NextDisabled(s2), click = "Next",
               Ev(click, click \in {"Check", "Next"},
                  IF click = "Check" THEN GradedTag(graded) ELSE "n/a"),
               IF click = "Check" /\ graded # None
               THEN graded_idx \cup {ss.idx} ELSE graded_idx)

\* main(): ss is session_state as the execution finds it (the widget values
\* the browser sent included), io and pdf the outcomes of the file read and of
\* the certificate rendering.
Main(click, ss, io, pdf, nm, choice) ==
    IF ss.quiz_path = NoQuiz THEN SelectionScreen(click, ss, nm, choice)
    ELSE \E res \in {load_quiz_json(ss.quiz_path, io)} :
             IF ~res.ok THEN LoadFailed(click, ss)
             ELSE LET questions == res.data.questions.v
                      total == Len(questions)
                  IN  IF total = 0 THEN NoQuestions(click, ss)
                      ELSE IF ss.idx >= total THEN show_results(click, ss, pdf)
                      ELSE \E q \in {questions[ss.idx + 1]} : QuestionScreen(click, ss, q)

----------------------------------------------------------------------------
(* What the user can do with the page the last execution drew *)

Labels == {list_quizzes[i].label : i \in 1..Len(list_quizzes)}
AnyLabel == list_quizzes[1].label

\* The question whose widget is on the page.
CurrentQuestion ==
    Disk[session_state.quiz_path].data.questions.v[session_state.idx + 1]

\* The texts typed into a short_answer box.
ShortInputs == {<<>>, <<"a", "b">>, <<" ", "A", "B", " ">>, <<"b">>}

\* The selections of a multiselect: the chosen options in the order chosen.
Selections(choices) ==
    LET C == {choices[i] : i \in 1..Len(choices)}
    IN  {s \in UNION {[1..n -> C] : n \in 0..Len(choices)} :
            \A i, j \in 1..Len(s) : i # j => s[i] # s[j]}

\* The values the user can give the widget of q.
Inputs(q) ==
    CASE q.type = "single_choice" -> {Some(q.choices[i]) : i \in 1..Len(q.choices)}
      [] q.type = "multi_select" -> Selections(q.choices)
      [] q.type = "true_false" -> {Some(STrue), Some(SFalse)}
      [] OTHER -> ShortInputs

CanClickStart == ~rerun /\ screen = "selection"
CanEdit == ~rerun /\ screen = "question"
CanClickCheck == ~rerun /\ screen = "question"
CanClickNext == ~rerun /\ screen = "question" /\ ~next_disabled
CanClickRestart == ~rerun /\ screen = "results"
CanClickBackToSelection == ~rerun /\ screen = "results"
CanClickBack == ~rerun /\ screen = "no_questions"

\* The first page load, a pending st.rerun(), or the user's "Rerun".
Rerun ==
    \E io \in BOOLEAN, pdf \in BOOLEAN, nm \in Names :
        Main("none", session_state, io, pdf, nm, AnyLabel)

\* The user changes the answer widget of the current question.
EditInput ==
    /\ CanEdit
    /\ \E v \in Inputs(CurrentQuestion), io \in BOOLEAN :
        Main("edit",
             [session_state EXCEPT !.widgets[WidgetKey(CurrentQuestion)] = v],
             io, TRUE, <<>>, AnyLabel)

ClickStart ==
    /\ CanClickStart
    /\ \E nm \in Names, choice \in Labels :
        Main("Start", session_state, TRUE, TRUE, nm, choice)

ClickCheck ==
    /\ CanClickCheck
    /\ \E io \in BOOLEAN : Main("Check", session_state, io, TRUE, <<>>, AnyLabel)

ClickNext ==
    /\ CanClickNext
    /\ \E io \in BOOLEAN : Main("Next", session_state, io, TRUE, <<>>, AnyLabel)

ClickRestart ==
    /\ CanClickRestart
    /\ \E io \in BOOLEAN, pdf \in BOOLEAN :
        Main("Restart", session_state, io, pdf, <<>>, AnyLabel)

ClickBackToSelection ==
    /\ CanClickBackToSelection
    /\ \E io \in BOOLEAN, pdf \in BOOLEAN :
        Main("BackToSelection", session_state, io, pdf, <<>>, AnyLabel)

ClickBack ==
    /\ CanClickBack
    /\ \E io \in BOOLEAN, nm \in Names :
        Main("Back", session_state, io, TRUE, nm, AnyLabel)

Init ==
    /\ session_state = init_state
    /\ screen = "none"
    /\ next_disabled = TRUE
    /\ rerun = FALSE
    /\ event = [click |-> "none", reached |-> FALSE, graded |-> "n/a",
                pre_graded |-> FALSE]
    /\ graded_idx = {}
    /\ probe = [pc |-> "off"]

Next ==
    \/ Rerun
    \/ EditInput
    \/ ClickStart
    \/ ClickCheck
    \/ ClickNext
    \/ ClickRestart
    \/ ClickBackToSelection
    \/ ClickBack

Spec == Init /\ [][Next]_vars

----------------------------------------------------------------------------
(* validate_quiz_data and check_question called directly, on documents made *)
(* of the questions below: well-formed ones and ones with a field missing,  *)
(* of the wrong JSON type or out of range.                                  *)

RawQuestions ==
    << SingleQ("a"),
       [SingleQ("a") EXCEPT !.answer = JInt(0)],
       [SingleQ("a") EXCEPT !.answer = JInt(2)],
       [SingleQ("a") EXCEPT !.answer = JInt(-1)],
       [SingleQ("a") EXCEPT !.answer = JBool(TRUE)],
       [SingleQ("a") EXCEPT !.answer = JStr(<<"1">>)],
       [id |-> "a", type |-> "single_choice", prompt |-> "pick one",
        answer |-> JInt(0)],
       [id |-> "a", type |-> "single_choice", prompt |-> "pick one",
        choices |-> <<SA, SB>>],
       MultiQ("b"),
       [MultiQ("b") EXCEPT !.answer = JList(<<>>)],
       [MultiQ("b") EXCEPT !.answer = JList(<<JInt(0)>>)],
       [MultiQ("b") EXCEPT !.answer = JList(<<JInt(0), JInt(0)>>)],
       [MultiQ("b") EXCEPT !.answer = JList(<<JInt(-1)>>)],
       [MultiQ("b") EXCEPT !.answer = JList(<<JInt(0), JInt(2)>>)],
       [MultiQ("b") EXCEPT !.answer = JList(<<JStr(<<"0">>)>>)],
       [MultiQ("b") EXCEPT !.answer = JInt(0)],
       [SingleQ("a") EXCEPT !.choices = <<SA, SA>>],
       TrueFalseQ("c"),
       [TrueFalseQ("c") EXCEPT !.answer = JBool(FALSE)],
       [TrueFalseQ("c") EXCEPT !.answer = JInt(1)],
       [id |-> "c", type |-> "true_false", prompt |-> "true or false"],
       ShortQ("d"),
       [ShortQ("d") EXCEPT !.answer_text = JList(<<>>)],
       [ShortQ("d") EXCEPT !.answer_text = JStr(<<"A", "b">>)],
       [id |-> "d", type |-> "short_answer", prompt |-> "type it"],
       [id |-> "e", type |-> "essay", prompt |-> "write"],
       [type |-> "true_false", prompt |-> "true or false", answer |-> JBool(TRUE)],
       [id |-> "c", prompt |-> "true or false", answer |-> JBool(TRUE)],
       [id |-> "c", type |-> "true_false", answer |-> JBool(TRUE)] >>

\* The shapes of the top level: a "questions" list, no "questions" key, a
\* "questions" value that is not a list.
TopShapes == {"list", "missing", "not_list"}

\* The documents: qs are positions in RawQuestions.
ProbeDocs ==
    {[top |-> t, qs |-> s] :
        t \in {"list"},
        s \in UNION {[1..n -> 1..Len(RawQuestions)] : n \in 0..MaxDocLen}}
    \cup {[top |-> t, qs |-> <<>>] : t \in TopShapes \ {"list"}}

\* The parsed JSON of a document.
RawDoc(d) ==
    CASE d.top = "missing" -> [meta |-> [title |-> "no questions"]]
      [] d.top = "not_list" -> [questions |-> JStr(<<"q">>)]
      [] OTHER -> [questions |-> JList([k \in 1..Len(d.qs) |-> RawQuestions[d.qs[k]]])]

\* What reaches check_question for q: the untouched widget or a user's input.
Submissions(q) == Inputs(q) \cup {WidgetDefault(q)}

InitFunction ==
    /\ session_state = init_state
    /\ screen = "none"
    /\ next_disabled = TRUE
    /\ rerun = FALSE
    /\ event = [click |-> "none", reached |-> FALSE, graded |-> "n/a",
                pre_graded |-> FALSE]
    /\ graded_idx = {}
    /\ \E d \in ProbeDocs :
        probe = [pc |-> "raw", doc |-> d, ok |-> FALSE, at |-> 0, err |-> "",
                 qi |-> 0, sub |-> <<>>, graded |-> "n/a"]

\* validate_quiz_data(data, name) on the document.
Validate ==
    /\ probe.pc = "raw"
    /\ LET verdict == validate_quiz_data(RawDoc(probe.doc))
       IN  probe' = [probe EXCEPT !.pc = "validated", !.ok = verdict.ok,
                                  !.at = verdict.q, !.err = verdict.err]
    /\ UNCHANGED <<session_state, screen, next_disabled, rerun, event, graded_idx>>

\* check_question(q, user_value) on a question of an accepted document.
Grade ==
    /\ probe.pc = "validated"
    /\ probe.ok
    /\ \E i \in 1..Len(probe.doc.qs) :
        LET q == RawQuestions[probe.doc.qs[i]]
        IN  \E v \in Submissions(q) :
                probe' = [probe EXCEPT !.pc = "graded", !.qi = i, !.sub = v,
                                       !.graded = GradedTag(check_question(q, v))]
    /\ UNCHANGED <<session_state, screen, next_disabled, rerun, event, graded_idx>>

NextFunction ==
    \/ Validate
    \/ Grade

FunctionSpec == InitFunction /\ [][NextFunction]_vars

----------------------------------------------------------------------------
(* The learner who works through a quiz *)

\* A learner who works through the quiz while the quiz files stay readable:
\* every load_quiz_json succeeds, the learner only enters non-empty answers
\* and only clicks "Check" on an answer entered.

\* A submission that is absent (no option chosen) or empty (no selection, no text).
SubmissionAbsent(q, v) ==
    IF q.type \in {"single_choice", "true_false"} THEN v = None ELSE v = <<>>

\* The widget of the current question holds an answer.
Answered ==
    /\ WidgetKey(CurrentQuestion) \in DOMAIN session_state.widgets
    /\ ~SubmissionAbsent(CurrentQuestion,
                         session_state.widgets[WidgetKey(CurrentQuestion)])

RerunLoaded ==
    \E pdf \in BOOLEAN, nm \in Names :
        Main("none", session_state, TRUE, pdf, nm, AnyLabel)

\* Streamlit runs main() again after st.rerun().
QueuedRerun == rerun /\ RerunLoaded

EnterAnswer ==
    /\ CanEdit
    /\ \E v \in {w \in Inputs(CurrentQuestion) :
                    ~SubmissionAbsent(CurrentQuestion, w)} :
        Main("edit",
             [session_state EXCEPT !.widgets[WidgetKey(CurrentQuestion)] = v],
             TRUE, TRUE, <<>>, AnyLabel)

CheckAnswer ==
    /\ CanClickCheck
    /\ Answered
    /\ Main("Check", session_state, TRUE, TRUE, <<>>, AnyLabel)

Advance ==
    /\ CanClickNext
    /\ Main("Next", session_state, TRUE, TRUE, <<>>, AnyLabel)

RestartLoaded ==
    /\ CanClickRestart
    /\ \E pdf \in BOOLEAN : Main("Restart", session_state, TRUE, pdf, <<>>, AnyLabel)

BackToSelectionLoaded ==
    /\ CanClickBackToSelection
    /\ \E pdf \in BOOLEAN :
        Main("BackToSelection", session_state, TRUE, pdf, <<>>, AnyLabel)

BackLoaded ==
    /\ CanClickBack
    /\ \E nm \in Names : Main("Back", session_state, TRUE, TRUE, nm, AnyLabel)

NextLearner ==
    \/ RerunLoaded
    \/ EnterAnswer
    \/ ClickStart
    \/ CheckAnswer
    \/ Advance
    \/ RestartLoaded
    \/ BackToSelectionLoaded
    \/ BackLoaded

\* A queued rerun runs; the learner keeps entering an answer, checking it and
\* advancing whenever the page allows it.
SpecLearner ==
    /\ Init
    /\ [][NextLearner]_vars
    /\ WF_vars(QueuedRerun)
    /\ WF_vars(EnterAnswer)
    /\ WF_vars(CheckAnswer)
    /\ WF_vars(Advance)

----------------------------------------------------------------------------
(* Properties *)

Active == session_state.quiz_path # NoQuiz

\* The active quiz passes validate_quiz_data.
ActiveValid == Active /\ validate_quiz_data(Disk[session_state.quiz_path].data).ok

ActiveQuestions == Disk[session_state.quiz_path].data.questions.v

Total == Len(ActiveQuestions)

\* The last execution ran the handler of the button named click.
Handled(click) == event.click = click /\ event.reached

\* The fields a run of a quiz is made of.
RunFields(ss) == <<ss.idx, ss.score, ss.attempts, ss.graded_current>>

\* C1: once the current question has a recorded attempt, a further Check of it,
\* whatever the submission and whatever the grader returns, changes neither
\* score nor attempts.
C1_RepeatedCheckIsNoOp ==
    [][(Handled("Check")' /\ session_state.graded_current)
        => /\ session_state'.score = session_state.score
           /\ session_state'.attempts = session_state.attempts]_vars

\* A correct submission was checked after an incorrect one had been recorded
\* for the same question, and the score is still 0.
C1_Witness ==
    /\ Handled("Check") /\ event.pre_graded /\ event.graded = "True"
    /\ Len(session_state.attempts) = 1
    /\ ~session_state.attempts[1].is_correct
    /\ session_state.score = 0

\* C2: while a quiz is active, the length of attempts equals the number of
\* distinct question indices graded (check_question returned a verdict) in the
\* current run.
C2_AttemptsCountGradedIndices ==
    Active => Len(session_state.attempts) = Cardinality(graded_idx)

\* Two questions are graded, the second one checked again after its attempt
\* was recorded.
C2_Witness ==
    /\ Active /\ Len(session_state.attempts) = 2
    /\ Handled("Check") /\ event.pre_graded /\ event.graded # "None"

\* C3: from a state where the current question has no recorded attempt no step
\* increases idx; idx increases only by one, from a graded question, so every
\* index passed has its attempt.
C3_AdvanceOnlyWhenGraded ==
    [][/\ ~session_state.graded_current => session_state'.idx <= session_state.idx
       /\ session_state'.idx > session_state.idx
            => /\ session_state'.idx = session_state.idx + 1
               /\ Len(session_state.attempts) = session_state'.idx]_vars

\* After one advance, a Check with nothing to grade left the second question
\* ungraded and the Next button disabled.
C3_Witness ==
    /\ CanClickCheck /\ session_state.idx = 1
    /\ Handled("Check") /\ event.graded = "None"
    /\ ~session_state.graded_current /\ next_disabled /\ ~CanClickNext

\* C4: a Check of an ungraded question with an absent or empty submission
\* leaves session_state as it was (score, attempts, idx, graded_current and
\* allow_next included).
C4_UngradedCheckChangesNothing ==
    [][(/\ Handled("Check")'
        /\ ~session_state.graded_current
        /\ SubmissionAbsent(CurrentQuestion,
                            session_state.widgets[WidgetKey(CurrentQuestion)]))
        => /\ session_state' = session_state
           /\ next_disabled']_vars

\* An empty short answer was checked on the second question of long.json.
C4_Witness ==
    /\ Handled("Check") /\ event.graded = "None" /\ ~event.pre_graded
    /\ Active /\ session_state.idx = 1
    /\ CurrentQuestion.type = "short_answer"
    /\ Len(session_state.attempts) = 1

\* C5: Restart sets score to 0, attempts to empty, idx to 0 and graded_current
\* to false, and keeps quiz_path and student_name.
C5_RestartResetsRun ==
    [][Handled("Restart")'
        => /\ RunFields(session_state') = <<0, 0, <<>>, FALSE>>
           /\ session_state'.quiz_path = session_state.quiz_path
           /\ session_state'.student_name = session_state.student_name]_vars

\* Restart was clicked on the results of a quiz run under a name.
C5_Witness ==
    /\ Handled("Restart") /\ rerun
    /\ Active /\ session_state.student_name = <<"K">>

\* C6: a quiz that fails to load or validate is never the active quiz, and the
\* execution in which the load fails leaves the session in Selecting with idx,
\* score, attempts and graded_current as they were.
C6_FailedLoadAborts ==
    [][/\ session_state'.quiz_path # NoQuiz
            => validate_quiz_data(Disk[session_state'.quiz_path].data).ok
       /\ screen' = "load_error"
            => /\ session_state'.quiz_path = NoQuiz
               /\ RunFields(session_state') = RunFields(session_state)]_vars

\* C7: with an active quiz of total questions, 0 <= idx <= total and
\* 0 <= score <= total.
C7_IndexAndScoreInRange ==
    ActiveValid
        => /\ 0 <= session_state.idx /\ session_state.idx <= Total
           /\ 0 <= session_state.score /\ session_state.score <= Total

\* A perfect run of a quiz of at least two questions is finished.
C7_Witness ==
    /\ ActiveValid /\ Total >= 2
    /\ session_state.idx = Total /\ session_state.score = Total

\* C8 as stated: the length of attempts is at most idx.
C8_AttemptsAtMostIndex ==
    Len(session_state.attempts) <= session_state.idx

\* C8 amended: the length of attempts is at most idx, plus one while the
\* current question is graded.
C8_AttemptsAtMostIndexPlusGraded ==
    Len(session_state.attempts)
        <= session_state.idx + (IF session_state.graded_current THEN 1 ELSE 0)

\* The second question is graded and not yet left: two attempts, idx 1.
C8_Witness ==
    /\ Active /\ session_state.graded_current
    /\ session_state.idx = 1 /\ Len(session_state.attempts) = 2

\* C9: when a quiz of total >= 1 questions is finished, attempts holds total
\* records and the k-th carries the id, prompt and type of the k-th question.
C9_OneAttemptPerQuestion ==
    (ActiveValid /\ Total >= 1 /\ session_state.idx >= Total)
        => /\ Len(session_state.attempts) = Total
           /\ \A k \in 1..Total :
                /\ session_state.attempts[k].id = ActiveQuestions[k].id
                /\ session_state.attempts[k].prompt = ActiveQuestions[k].prompt
                /\ session_state.attempts[k].type = ActiveQuestions[k].type

\* The results of long.json are on the page.
C9_Witness ==
    /\ ActiveValid /\ screen = "results" /\ ~rerun
    /\ session_state.quiz_path = "quizzes/long.json"
    /\ session_state.idx = Total /\ Len(session_state.attempts) = Total

\* C10: when the certificate rendering fails, score and attempts are unchanged
\* and both Restart and Back to Quiz Selection can be clicked afterwards.
C10_RenderFailureNotBlocking ==
    [][screen' = "results_exception"
        => /\ session_state'.score = session_state.score
           /\ session_state'.attempts = session_state.attempts
           /\ CanClickRestart'
           /\ CanClickBackToSelection']_vars

\* The widget keys (captured inputs) session_state holds.
CapturedKeys == {k \in DOMAIN session_state.widgets : k[1] \in Prefixes}

\* C11: with a valid quiz of zero questions active, idx, score and attempts are
\* 0, 0 and empty; once the queued rerun has run, the page is the no-questions
\* notice, on which Check, Next and Restart cannot be clicked; and every step
\* keeps the run fields and either keeps the quiz active or ends in Selecting.
C11_EmptyQuizIsTerminal ==
    [][/\ (ActiveValid /\ Total = 0)'
            => /\ RunFields(session_state') = <<0, 0, <<>>, FALSE>>
               /\ (~rerun' => /\ screen' = "no_questions"
                              /\ ~CanClickCheck' /\ ~CanClickNext'
                              /\ ~CanClickRestart' /\ CanClickBack')
       /\ (ActiveValid /\ Total = 0)
            => /\ RunFields(session_state') = RunFields(session_state)
               /\ session_state'.quiz_path \in {session_state.quiz_path, NoQuiz}]_vars

\* The Back button of the no-questions notice was clicked and the session is
\* in Selecting.
C11_Witness ==
    /\ Handled("Back") /\ ~Active /\ screen = "no_questions"
    /\ RunFields(session_state) = <<0, 0, <<>>, FALSE>>

\* C12: Back to Quiz Selection resets idx, score, attempts and graded_current,
\* removes every captured input and clears quiz_path.
C12_BackToSelectionResetsAll ==
    [][Handled("BackToSelection")'
        => /\ RunFields(session_state') = <<0, 0, <<>>, FALSE>>
           /\ CapturedKeys' = {}
           /\ session_state'.quiz_path = NoQuiz]_vars

\* Back to Quiz Selection was clicked on the results page.
C12_Witness ==
    /\ Handled("BackToSelection") /\ rerun /\ ~Active
    /\ session_state.widgets = <<>>

C17_ScoreCountsCorrectAttempts ==
    session_state.score
        = Cardinality({k \in 1..Len(session_state.attempts) :
                          session_state.attempts[k].is_correct})

\* On the second question a correct submission was checked after an incorrect
\* one had been recorded for it; the score is the one point of the first.
C17_Witness ==
    /\ Handled("Check") /\ event.pre_graded /\ event.graded = "True"
    /\ session_state.idx = 1 /\ Len(session_state.attempts) = 2
    /\ session_state.attempts[1].is_correct
    /\ ~session_state.attempts[2].is_correct
    /\ session_state.score = 1

\* C18 as stated: in Selecting idx = 0, score = 0, attempts is empty and
\* graded_current is false.
C18_SelectingIsReset ==
    ~Active => RunFields(session_state) = <<0, 0, <<>>, FALSE>>

\* C18 amended: Selecting is entered with the run fields reset, except by a
\* failed load of the active quiz, which leaves them as they were; in
\* Selecting they keep their values.
C18_SelectingResetUnlessLoadFailed ==
    [][/\ (Active /\ ~Active')
            => IF screen' = "load_error"
               THEN RunFields(session_state') = RunFields(session_state)
               ELSE RunFields(session_state') = <<0, 0, <<>>, FALSE>>
       /\ (~Active /\ ~Active')
            => RunFields(session_state') = RunFields(session_state)]_vars

\* The reload of the active quiz failed on its second question: Selecting with
\* idx = 1 and the recorded attempt still there.
C18_Witness ==
    /\ ~Active /\ screen = "load_error"
    /\ session_state.idx = 1 /\ Len(session_state.attempts) >= 1

\* The question check_question was called on, and the questions of the document.
ProbeQuestion == RawQuestions[probe.doc.qs[probe.qi]]
ProbeQuestions == [k \in 1..Len(probe.doc.qs) |-> RawQuestions[probe.doc.qs[k]]]

\* The 0-based position at which the string x first occurs in choices.
FirstPosition(choices, x) ==
    CHOOSE i \in 0..(Len(choices) - 1) :
        /\ choices[i + 1] = x
        /\ \A j \in 0..(i - 1) : choices[j + 1] # x

\* The positions of the submitted options, and the answer key as a set.
ChosenPositions(q, sel) == {FirstPosition(q.choices, sel[i]) : i \in 1..Len(sel)}
AnswerSet(q) == {PyInt(q.answer.v[i]) : i \in 1..Len(q.answer.v)}

\* C13 as stated: for every submitted set of choices of an accepted
\* multi_select question the verdict is correct iff the chosen positions are
\* the answer set, and every proper subset or superset of it is graded incorrect.
C13_MultiSelectExactMatchAnySet ==
    (probe.pc = "graded" /\ ProbeQuestion.type = "multi_select")
        => LET chosen == ChosenPositions(ProbeQuestion, probe.sub)
               answer == AnswerSet(ProbeQuestion)
           IN  /\ probe.graded = "True" <=> chosen = answer
               /\ (chosen # answer /\ (chosen \subseteq answer \/ answer \subseteq chosen))
                    => probe.graded = "False"

\* C13 amended: an empty selection is not graded; every non-empty one is
\* graded, correct iff the chosen positions are the answer set.
C13_MultiSelectExactMatch ==
    (probe.pc = "graded" /\ ProbeQuestion.type = "multi_select")
        => IF probe.sub = <<>> THEN probe.graded = "None"
           ELSE probe.graded =
                    (IF ChosenPositions(ProbeQuestion, probe.sub) = AnswerSet(ProbeQuestion)
                     THEN "True" ELSE "False")

\* One of the two options of the answer was submitted alone and graded
\* incorrect.
C13_Witness ==
    /\ probe.pc = "graded" /\ ProbeQuestion.type = "multi_select"
    /\ AnswerSet(ProbeQuestion) = {0, 1}
    /\ probe.sub = <<SB>> /\ probe.graded = "False"

\* C14: for an accepted single_choice question an absent submission is not
\* graded, and a submitted choice is correct iff its position in choices
\* equals answer.
C14_SingleChoiceIndexMatch ==
    (probe.pc = "graded" /\ ProbeQuestion.type = "single_choice")
        => IF probe.sub = None THEN probe.graded = "None"
           ELSE probe.graded =
                    (IF FirstPosition(ProbeQuestion.choices, probe.sub.val)
                            = PyInt(ProbeQuestion.answer)
                     THEN "True" ELSE "False")

\* The choice at position answer = 1 was submitted and graded correct.
C14_Witness ==
    /\ probe.pc = "graded" /\ ProbeQuestion.type = "single_choice"
    /\ PyInt(ProbeQuestion.answer) = 1
    /\ probe.sub = Some(SB) /\ probe.graded = "True"

QuestionTypes == {"single_choice", "multi_select", "true_false", "short_answer"}

\* An entry of an answer list that is not an integer index into choices.
BadIndex(q, a) == ~IsInstanceInt(a) \/ PyInt(a) < 0 \/ PyInt(a) >= Len(q.choices)

\* Question q has one of the violations the claim lists.
ListedViolation(q) ==
    \/ ~({"id", "type", "prompt"} \subseteq DOMAIN q)
    \/ q.type \notin QuestionTypes
    \/ /\ q.type = "single_choice"
       /\ {"choices", "answer"} \subseteq DOMAIN q
       /\ IsInstanceInt(q.answer)
       /\ (PyInt(q.answer) < 0 \/ PyInt(q.answer) >= Len(q.choices))
    \/ /\ q.type = "multi_select"
       /\ {"choices", "answer"} \subseteq DOMAIN q
       /\ IsInstanceList(q.answer)
       /\ \E i \in 1..Len(q.answer.v) : BadIndex(q, q.answer.v[i])
    \/ /\ q.type = "true_false"
       /\ ("answer" \notin DOMAIN q \/ ~IsInstanceBool(q.answer))
    \/ /\ q.type = "short_answer"
       /\ "answer_text" \in DOMAIN q
       /\ IsInstanceList(q.answer_text)
       /\ q.answer_text.v = <<>>

\* Question q lacks a field its type needs, or the field has the wrong JSON type.
ShapeViolation(q) ==
    /\ {"id", "type", "prompt"} \subseteq DOMAIN q
    /\ \/ /\ q.type = "single_choice"
          /\ ~({"choices", "answer"} \subseteq DOMAIN q /\ IsInstanceInt(q.answer))
       \/ /\ q.type = "multi_select"
          /\ ~({"choices", "answer"} \subseteq DOMAIN q /\ IsInstanceList(q.answer))
       \/ /\ q.type = "short_answer"
          /\ ~("answer_text" \in DOMAIN q /\ IsInstanceList(q.answer_text))

\* The verdict on the probed document is: rejected when questions is not a
\* list; otherwise rejected iff some question is in bad, naming the first one.
VerdictMatches(bad) ==
    IF probe.doc.top # "list" THEN ~probe.ok
    ELSE /\ probe.ok <=> bad = {}
         /\ bad # {} => probe.at = SetMin(bad)

\* C15 as stated: a document is rejected iff questions is missing or some
\* question has a listed violation, and the rejection names the first such
\* question (1-based).
C15_ValidatorRejectsListed ==
    probe.pc = "validated"
        => VerdictMatches({i \in 1..Len(probe.doc.qs) : ListedViolation(ProbeQuestions[i])})

\* C15 amended: the violations also include a missing or wrongly typed
\* choices, answer or answer_text field.
C15_ValidatorRejectsListedOrShape ==
    probe.pc = "validated"
        => VerdictMatches({i \in 1..Len(probe.doc.qs) :
                              \/ ListedViolation(ProbeQuestions[i])
                              \/ ShapeViolation(ProbeQuestions[i])})

\* A two-question document whose first question is fine and whose second has
\* an answer index equal to len(choices) was rejected at question 2.
C15_Witness ==
    /\ probe.pc = "validated" /\ ~probe.ok
    /\ probe.at = 2 /\ probe.err = "single_choice_range"
    /\ ~ListedViolation(ProbeQuestions[1])
    /\ PyInt(ProbeQuestions[2].answer) = Len(ProbeQuestions[2].choices)

\* C19: every question of an accepted document with at least one question has
\* a submission the learner can make that is graded correct, so a run with
\* score = total exists.
C19_PerfectRunExists ==
    (probe.pc = "validated" /\ probe.ok /\ Len(probe.doc.qs) >= 1)
        => \A i \in 1..Len(probe.doc.qs) :
              \E v \in Submissions(ProbeQuestions[i]) :
                  check_question(ProbeQuestions[i], v) = Some(TRUE)

\* C20: idx changes only by +1 in the "Next" handler of a question that
\* exists, or back to 0 when a run starts (Start, Restart, Back to Quiz
\* Selection); and once a valid quiz with at least one question is active, the
\* learner who keeps answering and advancing reaches idx = total.
C20_AdvanceByOneUntilFinished ==
    /\ [][session_state'.idx # session_state.idx =>
            \/ /\ Handled("Next")'
               /\ session_state'.idx = session_state.idx + 1
               /\ ActiveValid /\ session_state'.idx <= Total
            \/ /\ session_state'.idx = 0
               /\ \/ Handled("Start")'
                  \/ Handled("Restart")'
                  \/ Handled("BackToSelection")']_vars
    /\ (ActiveValid /\ Total >= 1) ~> (ActiveValid /\ session_state.idx = Total)

\* The last "Next" of a quiz of MaxQuestions questions has run: every question
\* was graded and idx is total.
C20_Witness ==
    /\ ActiveValid /\ Total = MaxQuestions
    /\ Handled("Next") /\ rerun
    /\ session_state.idx = Total
    /\ graded_idx = 0..(Total - 1)

====
